---------------------------- MODULE Spec2Model ----------------------------
(***************************************************************************)
(* Model of the Docker operations of pyinfra:                              *)
(*   pyinfra/operations/docker.py       container, image, volume           *)
(*   pyinfra/operations/util/docker.py  command renderers, handle_docker   *)
(*   pyinfra/facts/util/docker.py       convert_key, parse_response        *)
(*                                                                         *)
(* A rendered command is a Python string built with " ".join(command).     *)
(* The model keeps it as the sequence of its blank-separated words, so     *)
(* "docker container rm -f nginx" is <<"docker","container","rm","-f",     *)
(* "nginx">>.  A function result is a record: err names the exception      *)
(* raised ("none" when the call returns), value says whether a string or   *)
(* None was returned, words is the returned string.                        *)
(***************************************************************************)
EXTENDS Integers, Sequences, FiniteSets, TLC

(***************************************************************************)
(* Bounds of the model.                                                    *)
(***************************************************************************)
\* total number of entries over the list-valued parameters of one call
MaxEntries == 2
\* number of times the same operation call is run against the host
MaxPasses == 2
\* number of characters of a key made of KeyChars
MaxKeyLen == 4
\* number of lines of the output handed to parse_response
MaxLines == 2

(***************************************************************************)
(* Values the parameters are drawn from.                                   *)
(***************************************************************************)
ContainerNames == {"nginx", "db"}
Images == {"", "nginx:alpine"}
Ports == {"80:80", "443:443"}
Networks == {"proxy", "services"}
Mounts == {"nginx_data:/usr/share/nginx/html", "logs:/var/log"}
EnvVars == {"A=1", "B=2"}
VolumeNames == {"nginx_data", "logs"}
Drivers == {"", "local"}
\* "driver" is a legal label key and also the name of a keyword argument
Labels == {"env=prod", "tier=db", "driver"}
ImageRefs == {"nginx:alpine", "redis:7"}
NetworkNames == {"proxy"}
\* resource and command names handle_docker is called with; "secret" is a
\* resource kind it has no dictionary for
ResourceKinds == {"container", "image", "volume", "network", "secret"}
CommandKinds == {"create", "remove", "start", "stop", "pull"}
Scalars == {"", "x"}
Opts == {"o1", "o2"}
\* run-state of a container on the host; "absent" is no container at all
Statuses == {"absent", "created", "running", "exited"}

(***************************************************************************)
(* Sequences.                                                              *)
(***************************************************************************)
SeqsUpTo(S, n) == UNION {[1..k -> S] : k \in 0..n}

\* " ".join(command): the words of the parts, in order
RECURSIVE Join(_)
Join(parts) == IF parts = <<>> THEN <<>> ELSE Head(parts) \o Join(Tail(parts))

\* Flags walking the list from its end
Flags_reversed(flag, list) ==
    Join([i \in 1..Len(list) |-> <<flag, list[Len(list) + 1 - i]>>])

\* for x in list: command.append("<flag> {0}".format(x))
Flags(flag, list) == Join([i \in 1..Len(list) |-> <<flag, list[i]>>])

\* command.append("<flag> {0}".format(value)) guarded by a condition
FlagIf(cond, words) == IF cond THEN words ELSE <<>>

(***************************************************************************)
(* Results of a call.                                                      *)
(***************************************************************************)
Return(words) == [err |-> "none", value |-> "str", words |-> words]
ReturnNone == [err |-> "none", value |-> "None", words |-> <<>>]
Raise(e) == [err |-> e, value |-> "raised", words |-> <<>>]

(***************************************************************************)
(* pyinfra/operations/util/docker.py                                       *)
(***************************************************************************)
_start_container(kwargs) ==
    Return(<<"docker", "container", "start", kwargs.container>>)

_stop_container(kwargs) ==
    Return(<<"docker", "container", "stop", kwargs.container>>)

_remove_container(kwargs) ==
    Return(<<"docker", "container", "rm", "-f", kwargs.container>>)

\* _create_container appending the start invocation whatever start is
_create_container_always_start(kwargs) ==
    IF kwargs.image = ""
    THEN Raise("OperationError")
    ELSE Return(
           <<"docker", "container", "create", "--name", kwargs.container>>
           \o Flags("--network", kwargs.networks)
           \o Flags("-p", kwargs.ports)
           \o Flags("-v", kwargs.volumes)
           \o Flags("-e", kwargs.env_vars)
           \o FlagIf(kwargs.pull_always, <<"--pull", "always">>)
           \o <<kwargs.image>>
           \o <<";">> \o _start_container([container |-> kwargs.container]).words)

_create_container(kwargs) ==
    IF kwargs.image = ""
    THEN Raise("OperationError")
    ELSE Return(
           <<"docker", "container", "create", "--name", kwargs.container>>
           \o Flags("--network", kwargs.networks)
           \o Flags("-p", kwargs.ports)
           \o Flags("-v", kwargs.volumes)
           \o Flags("-e", kwargs.env_vars)
           \o FlagIf(kwargs.pull_always, <<"--pull", "always">>)
           \o <<kwargs.image>>
           \o FlagIf(kwargs.start,
                     <<";">> \o _start_container([container |-> kwargs.container]).words))

_pull_image(kwargs) ==
    Return(<<"docker", "image", "pull", kwargs.image>>)

_remove_image(kwargs) ==
    Return(<<"docker", "image", "rm", kwargs.image>>)

\* kwargs[label] of line 63: the label is used as the NAME of a keyword
\* argument.  A label that names no keyword argument raises KeyError; among
\* the labels of the model only "driver" names one, and its value is put
\* in the label's place.
RECURSIVE VolumeLabelFlags(_, _)
VolumeLabelFlags(kwargs, labels) ==
    IF labels = <<>> THEN Return(<<>>)
    ELSE IF Head(labels) \notin DOMAIN kwargs THEN Raise("KeyError")
    ELSE LET rest == VolumeLabelFlags(kwargs, Tail(labels))
         IN  IF rest.err # "none" THEN rest
             ELSE Return(<<"--label", kwargs[Head(labels)]>> \o rest.words)

_create_volume(kwargs) ==
    LET labels == VolumeLabelFlags(kwargs, kwargs.labels)
    IN  IF labels.err # "none" THEN labels
        ELSE Return(
               <<"docker", "volume", "create", kwargs.volume>>
               \o FlagIf(kwargs.driver # "", <<"-d", kwargs.driver>>)
               \o labels.words)

_remove_volume(kwargs) ==
    Return(<<"docker", "image", "rm", kwargs.volume>>)

\* the command list that _create_network builds (lines 73-106)
NetworkCreateWords(kwargs) ==
    <<"docker", "network", "create", kwargs.network>>
    \o FlagIf(kwargs.driver # "", <<"-d", kwargs.driver>>)
    \o FlagIf(kwargs.gateway # "", <<"--gateway", kwargs.gateway>>)
    \o FlagIf(kwargs.ip_range # "", <<"--ip-range", kwargs.ip_range>>)
    \o FlagIf(kwargs.ipam_driver # "", <<"--ipam-driver", kwargs.ipam_driver>>)
    \o FlagIf(kwargs.subnet # "", <<"--subnet", kwargs.subnet>>)
    \o FlagIf(kwargs.scope # "", <<"--scope", kwargs.scope>>)
    \o FlagIf(kwargs.ingress, <<"--ingress">>)
    \o FlagIf(kwargs.attachable, <<"--attachable">>)
    \o Flags("--opt", kwargs.opts)
    \o Flags("--ipam-opt", kwargs.ipam_opts)
    \o Flags("--label", kwargs.labels)

\* the function ends after the last loop without a return statement, so
\* the list it built is dropped and the call returns None
_create_network(kwargs) ==
    LET command == NetworkCreateWords(kwargs)
    IN  ReturnNone

_remove_network(kwargs) ==
    Return(<<"docker", "network", "rm", kwargs.network>>)

\* the keys of the dispatch dictionaries of handle_docker
docker_commands ==
    [container |-> {"create", "remove", "start", "stop"},
     image     |-> {"pull", "remove"},
     volume    |-> {"create", "remove"},
     network   |-> {"create", "remove"}]

\* handle_docker looking the renderer up with a default that renders nothing
handle_docker_default(resource, command, kwargs) ==
    IF resource \notin DOMAIN docker_commands THEN Return(<<>>)
    ELSE IF command \notin docker_commands[resource] THEN Return(<<>>)
    ELSE CASE resource = "container" /\ command = "create" -> _create_container(kwargs)
           [] resource = "container" /\ command = "remove" -> _remove_container(kwargs)
           [] resource = "container" /\ command = "start"  -> _start_container(kwargs)
           [] resource = "container" /\ command = "stop"   -> _stop_container(kwargs)
           [] resource = "image"     /\ command = "pull"   -> _pull_image(kwargs)
           [] resource = "image"     /\ command = "remove" -> _remove_image(kwargs)
           [] resource = "volume"    /\ command = "create" -> _create_volume(kwargs)
           [] resource = "volume"    /\ command = "remove" -> _remove_volume(kwargs)
           [] resource = "network"   /\ command = "create" -> _create_network(kwargs)
           [] resource = "network"   /\ command = "remove" -> _remove_network(kwargs)

handle_docker(resource, command, kwargs) ==
    IF resource \notin DOMAIN docker_commands THEN Raise("KeyError")
    ELSE IF command \notin docker_commands[resource] THEN Raise("KeyError")
    ELSE CASE resource = "container" /\ command = "create" -> _create_container(kwargs)
           [] resource = "container" /\ command = "remove" -> _remove_container(kwargs)
           [] resource = "container" /\ command = "start"  -> _start_container(kwargs)
           [] resource = "container" /\ command = "stop"   -> _stop_container(kwargs)
           [] resource = "image"     /\ command = "pull"   -> _pull_image(kwargs)
           [] resource = "image"     /\ command = "remove" -> _remove_image(kwargs)
           [] resource = "volume"    /\ command = "create" -> _create_volume(kwargs)
           [] resource = "volume"    /\ command = "remove" -> _remove_volume(kwargs)
           [] resource = "network"   /\ command = "create" -> _create_network(kwargs)
           [] resource = "network"   /\ command = "remove" -> _remove_network(kwargs)

(***************************************************************************)
(* pyinfra/facts/util/docker.py                                            *)
(*                                                                         *)
(* A key is kept as the sequence of its characters.                        *)
(***************************************************************************)
\* the characters keys are made of
KeyChars == {"I", "D", "P", "v", "4", "6"}
Key_ID == <<"I", "D">>
Key_IPv4 == <<"I", "P", "v", "4">>
Key_IPv6 == <<"I", "P", "v", "6">>
Key_RepoTags == <<"R", "e", "p", "o", "T", "a", "g", "s">>
Key_Image == <<"I", "m", "a", "g", "e">>
Key_Id == <<"I", "d">>
Keys == SeqsUpTo(KeyChars, MaxKeyLen) \cup {Key_RepoTags, Key_Image, Key_Id}

\* the characters of the model that the class [A-Z] matches
AZ == {"I", "D", "P", "R", "T"}

\* str.lower() on one character
LowerChar(c) ==
    CASE c = "I" -> "i" [] c = "D" -> "d" [] c = "P" -> "p"
      [] c = "R" -> "r" [] c = "T" -> "t" [] OTHER -> c

\* key.lower()
lower(key) == [i \in 1..Len(key) |-> LowerChar(key[i])]

\* pattern.sub("_", key) for the pattern (?<!^)(?=[A-Z]): the empty match at
\* every position that is not the start of the key and is followed by a
\* character of [A-Z] is replaced by "_"; i is the position looked at
RECURSIVE pattern_sub(_, _)
pattern_sub(key, i) ==
    IF i > Len(key) THEN <<>>
    ELSE (IF i # 1 /\ key[i] \in AZ THEN <<"_">> ELSE <<>>)
         \o <<key[i]>> \o pattern_sub(key, i + 1)

ignored_keys == {Key_ID, Key_IPv6, Key_IPv4}

\* convert_key without the test against ignored_keys
convert_key_no_ignored(key) == lower(pattern_sub(key, 1))

convert_key(key) ==
    IF key \in ignored_keys THEN lower(key)
    ELSE lower(pattern_sub(key, 1))

\* A line of output is kept as the sequence of its JSON tokens, every token
\* a sequence of characters: an object is "{", then keys and values in
\* turn, then "}".
LBrace == <<"{">>
RBrace == <<"}">>
Line_IdTags == <<LBrace, Key_ID, <<"1">>, Key_RepoTags, <<"2">>, RBrace>>
Line_Image == <<LBrace, Key_Image, <<"3">>, RBrace>>
Line_EmptyObject == <<LBrace, RBrace>>
\* the text 5 and the text []: JSON, but no object
Line_Number == <<<<"5">>>>
Line_EmptyArray == <<<<"[">>, <<"]">>>>
\* an object cut off before its end, and the empty line: no JSON
Line_Truncated == <<LBrace, Key_ID, <<"1">>>>
Line_Empty == <<>>
Lines == {Line_IdTags, Line_Image, Line_EmptyObject, Line_Number,
          Line_EmptyArray, Line_Truncated, Line_Empty}

\* json.loads(o): kind is the Python type of the value, dict the mapping of
\* an object from its keys to its values
json_loads(o) ==
    IF o = Line_Number
    THEN [err |-> "none", kind |-> "int", dict |-> <<>>]
    ELSE IF o = Line_EmptyArray
    THEN [err |-> "none", kind |-> "list", dict |-> <<>>]
    ELSE IF /\ Len(o) >= 2
            /\ o[1] = LBrace
            /\ o[Len(o)] = RBrace
            /\ Len(o) % 2 = 0
    THEN [err |-> "none", kind |-> "dict",
          dict |-> [k \in {o[2 * i] : i \in 1..((Len(o) - 2) \div 2)} |->
                      LET i == CHOOSE i \in 1..((Len(o) - 2) \div 2) :
                                 /\ o[2 * i] = k
                                 /\ \A j \in (i + 1)..((Len(o) - 2) \div 2) : o[2 * j] # k
                      IN  o[2 * i + 1]]]
    ELSE [err |-> "JSONDecodeError", kind |-> "raised", dict |-> <<>>]

\* convert_dict(docker_object): the comprehension walks the keys of a dict,
\* walks nothing on the empty list, and raises TypeError on a number.  The
\* objects of the model have no two keys with the same converted key.
convert_dict(docker_object) ==
    IF docker_object.kind = "int"
    THEN [err |-> "TypeError", dict |-> <<>>]
    ELSE [err |-> "none",
          dict |-> [c \in {convert_key(k) : k \in DOMAIN docker_object.dict} |->
                      docker_object.dict[CHOOSE k \in DOMAIN docker_object.dict :
                                             convert_key(k) = c]]]

\* [convert_dict(json.loads(o)) for o in output]: value is "list" when the
\* list is returned, records is the list
RECURSIVE parse_response(_)
parse_response(output) ==
    IF output = <<>>
    THEN [err |-> "none", value |-> "list", records |-> <<>>]
    ELSE LET parsed == json_loads(Head(output))
         IN  IF parsed.err # "none"
             THEN [err |-> parsed.err, value |-> "raised", records |-> <<>>]
             ELSE LET converted == convert_dict(parsed)
                      rest == parse_response(Tail(output))
                  IN  IF converted.err # "none"
                      THEN [err |-> converted.err, value |-> "raised", records |-> <<>>]
                      ELSE IF rest.err # "none" THEN rest
                      ELSE [rest EXCEPT !.records = <<converted.dict>> \o @]

(***************************************************************************)
(* pyinfra/operations/docker.py                                            *)
(*                                                                         *)
(* An operation is a generator.  g is the state of one run of it: out is   *)
(* the sequence of the values yielded so far, err the exception that ended *)
(* the run ("none" while it runs or when it returned), noops the number of *)
(* host.noop calls, lookups the number of host.get_fact calls, ret the     *)
(* value of a direct call of handle_docker or convert_key, records the     *)
(* list parse_response returned, lists the list objects bound to the       *)
(* list-valued parameters of the operation, existent the record the run    *)
(* looked up (existent_container, existent_volume).  A yielded value is    *)
(* kept together with the handle_docker call that made it.                 *)
(***************************************************************************)
None == [none |-> TRUE]
NoReturn == [err |-> "none", value |-> "unused", words |-> <<>>]
NoRun == [out |-> <<>>, err |-> "none", noops |-> 0, lookups |-> 0,
          existent |-> None, ret |-> NoReturn, records |-> <<>>,
          lists |-> <<>>]

\* kwargs_after with a create renderer that fills in a missing network
kwargs_after_default_network(resource, command, kwargs) ==
    IF resource = "container" /\ command = "create" /\ kwargs.networks = <<>>
    THEN [kwargs EXCEPT !.networks = Append(@, "bridge")]
    ELSE kwargs

\* the keyword arguments as handle_docker leaves them: the renderers read
\* kwargs and iterate over its lists; none assigns to kwargs, and none calls
\* a method of a value of it
kwargs_after(resource, command, kwargs) == kwargs

\* yield handle_docker(resource=..., command=..., **kwargs): the lists in
\* kwargs are the list objects of the parameters of the operation
Yield(g, resource, command, kwargs) ==
    LET r == handle_docker(resource, command, kwargs)
        after == kwargs_after(resource, command, kwargs)
        lists == [p \in DOMAIN g.lists |->
                    IF p \in DOMAIN after THEN after[p] ELSE g.lists[p]]
    IN  IF r.err # "none"
        THEN [g EXCEPT !.err = r.err, !.lists = lists]
        ELSE [g EXCEPT !.lists = lists,
                       !.out = Append(@, [resource |-> resource,
                                          command  |-> command,
                                          kwargs   |-> kwargs,
                                          value    |-> r.value,
                                          words    |-> r.words])]

\* next(iter(facts), None)
NextOrNone(facts) == IF facts = <<>> THEN None ELSE Head(facts)

\* truth value of a fact record or None: None and the empty dict are false
Truthy(rec) == rec # None /\ DOMAIN rec # {}

\* rec["State"][key]
StateField(rec, key) ==
    IF "State" \notin DOMAIN rec THEN Raise("KeyError")
    ELSE IF key \notin DOMAIN rec.State THEN Raise("KeyError")
    ELSE [err |-> "none", value |-> "str", words |-> <<rec.State[key]>>]

\* container_force with the force branch left out
container_force_skipped(g, a, existent_container) == g

\* container_force without the existence test of line 73
container_force_unguarded(g, a, existent_container) ==
    IF g.err # "none" THEN g
    ELSE IF a.force
    THEN Yield(g, "container", "remove", [container |-> a.container])
    ELSE g

\* lines 72-78
container_force(g, a, existent_container) ==
    IF g.err # "none" THEN g
    ELSE IF a.force /\ Truthy(existent_container)
    THEN Yield(g, "container", "remove", [container |-> a.container])
    ELSE g

\* container_create without the existence test of line 81
container_create_unguarded(g, a, existent_container) ==
    IF g.err # "none" THEN g
    ELSE IF a.present
    THEN Yield(g, "container", "create",
               [container |-> a.container, image |-> a.image,
                ports |-> a.ports, networks |-> a.networks,
                volumes |-> a.volumes, env_vars |-> a.env_vars,
                pull_always |-> a.pull_always, present |-> a.present,
                force |-> a.force, start |-> a.start])
    ELSE g

\* lines 80-95
container_create(g, a, existent_container) ==
    IF g.err # "none" THEN g
    ELSE IF a.present /\ (~Truthy(existent_container) \/ a.force)
    THEN Yield(g, "container", "create",
               [container |-> a.container, image |-> a.image,
                ports |-> a.ports, networks |-> a.networks,
                volumes |-> a.volumes, env_vars |-> a.env_vars,
                pull_always |-> a.pull_always, present |-> a.present,
                force |-> a.force, start |-> a.start])
    ELSE g

\* lines 97-103
container_start(g, a, existent_container) ==
    IF g.err # "none" THEN g
    ELSE IF Truthy(existent_container) /\ a.start
    THEN LET status == StateField(existent_container, "Status=")
         IN  IF status.err # "none" THEN [g EXCEPT !.err = status.err]
             ELSE IF status.words # <<"running">>
             THEN Yield(g, "container", "start", [container |-> a.container])
             ELSE g
    ELSE g

\* container_stop reading the key "Status=" as line 98 does
container_stop_wrong_key(g, a, existent_container) ==
    IF g.err # "none" THEN g
    ELSE IF Truthy(existent_container) /\ ~a.start
    THEN LET status == StateField(existent_container, "Status=")
         IN  IF status.err # "none" THEN [g EXCEPT !.err = status.err]
             ELSE IF status.words = <<"running">>
             THEN Yield(g, "container", "stop", [container |-> a.container])
             ELSE g
    ELSE g

\* lines 105-111
container_stop(g, a, existent_container) ==
    IF g.err # "none" THEN g
    ELSE IF Truthy(existent_container) /\ ~a.start
    THEN LET status == StateField(existent_container, "Status")
         IN  IF status.err # "none" THEN [g EXCEPT !.err = status.err]
             ELSE IF status.words = <<"running">>
             THEN Yield(g, "container", "stop", [container |-> a.container])
             ELSE g
    ELSE g

\* lines 113-118
container_remove(g, a, existent_container) ==
    IF g.err # "none" THEN g
    ELSE IF Truthy(existent_container) /\ ~a.present
    THEN Yield(g, "container", "remove", [container |-> a.container])
    ELSE g

\* the body of container(), run to its end or to the exception that ends it
container(a, facts) ==
    LET existent_container == NextOrNone(facts)
        g0 == [NoRun EXCEPT !.lookups = 1, !.existent = existent_container,
                            !.lists = [ports |-> a.ports, networks |-> a.networks,
                                       volumes |-> a.volumes,
                                       env_vars |-> a.env_vars]]
        g1 == container_force(g0, a, existent_container)
        g2 == container_create(g1, a, existent_container)
        g3 == container_start(g2, a, existent_container)
        g4 == container_stop(g3, a, existent_container)
    IN  container_remove(g4, a, existent_container)

\* volume without the return statements after host.noop
volume_no_return(a, facts) ==
    LET existent_volume == NextOrNone(facts)
        g0 == [NoRun EXCEPT !.lookups = 1, !.existent = existent_volume,
                            !.lists = [labels |-> a.labels]]
    IN  IF a.present
        THEN Yield(IF Truthy(existent_volume) THEN [g0 EXCEPT !.noops = @ + 1] ELSE g0,
                   "volume", "create",
                   [volume |-> a.volume, driver |-> a.driver,
                    labels |-> a.labels, present |-> a.present])
        ELSE Yield(IF existent_volume = None THEN [g0 EXCEPT !.noops = @ + 1] ELSE g0,
                   "volume", "remove", [volume |-> a.volume])

\* the body of volume()
volume(a, facts) ==
    LET existent_volume == NextOrNone(facts)
        g0 == [NoRun EXCEPT !.lookups = 1, !.existent = existent_volume,
                            !.lists = [labels |-> a.labels]]
    IN  IF a.present
        THEN IF Truthy(existent_volume)
             THEN [g0 EXCEPT !.noops = @ + 1]
             ELSE Yield(g0, "volume", "create",
                        [volume |-> a.volume, driver |-> a.driver,
                         labels |-> a.labels, present |-> a.present])
        ELSE IF existent_volume = None
             THEN [g0 EXCEPT !.noops = @ + 1]
             ELSE Yield(g0, "volume", "remove", [volume |-> a.volume])

\* image with the two branches exchanged
image_swapped(a) ==
    IF a.present
    THEN Yield(NoRun, "image", "remove", [image |-> a.image])
    ELSE Yield(NoRun, "image", "pull", [image |-> a.image])

\* the body of image(): no fact is looked up
image(a) ==
    IF a.present
    THEN Yield(NoRun, "image", "pull", [image |-> a.image])
    ELSE Yield(NoRun, "image", "remove", [image |-> a.image])

(***************************************************************************)
(* The calls of the model.                                                 *)
(***************************************************************************)
TotalLen(lists) ==
    LET F[S \in SUBSET DOMAIN lists] ==
          IF S = {} THEN 0
          ELSE LET k == CHOOSE k \in S : TRUE
               IN  Len(lists[k]) + F[S \ {k}]
    IN  F[DOMAIN lists]

ContainerLists ==
    {l \in [ports    : SeqsUpTo(Ports, MaxEntries),
            networks : SeqsUpTo(Networks, MaxEntries),
            volumes  : SeqsUpTo(Mounts, MaxEntries),
            env_vars : SeqsUpTo(EnvVars, MaxEntries)] : TotalLen(l) <= MaxEntries}

ContainerCalls ==
    {[op |-> "container", container |-> n, image |-> i,
      ports |-> l.ports, networks |-> l.networks, volumes |-> l.volumes,
      env_vars |-> l.env_vars, pull_always |-> b[1], present |-> b[2],
      force |-> b[3], start |-> b[4]] :
        n \in ContainerNames, i \in Images, l \in ContainerLists,
        b \in [1..4 -> BOOLEAN]}

VolumeCalls ==
    [op : {"volume"}, volume : VolumeNames, driver : Drivers,
     labels : SeqsUpTo(Labels, MaxEntries), present : BOOLEAN]

ImageCalls == [op : {"image"}, image : ImageRefs, present : BOOLEAN]

NetworkLists ==
    {l \in [opts      : SeqsUpTo(Opts, MaxEntries),
            ipam_opts : SeqsUpTo(Opts, MaxEntries),
            labels    : SeqsUpTo(Labels, MaxEntries)] : TotalLen(l) <= MaxEntries}

NetworkCreateKwargs ==
    {[network |-> n, driver |-> s[1], gateway |-> s[2], ip_range |-> s[3],
      ipam_driver |-> s[4], subnet |-> s[5], scope |-> s[6],
      ingress |-> b[1], attachable |-> b[2],
      opts |-> l.opts, ipam_opts |-> l.ipam_opts, labels |-> l.labels] :
        n \in NetworkNames, s \in [1..6 -> Scalars], b \in [1..2 -> BOOLEAN],
        l \in NetworkLists}

\* keyword arguments that name one resource of every kind
NamingKwargs ==
    [container : ContainerNames, image : {"nginx:alpine"},
     volume : {"nginx_data"}, network : NetworkNames]

\* calls of convert_key
ConvertCalls == [op : {"convert_key"}, key : Keys]

\* calls of parse_response
ParseCalls == [op : {"parse_response"}, output : SeqsUpTo(Lines, MaxLines)]

\* direct calls of handle_docker: network create and remove, and every pair
\* of a resource and a command name except the other create renderers
RenderCalls ==
    [op : {"render"}, resource : {"network"}, command : {"create"},
     kwargs : NetworkCreateKwargs]
    \cup [op : {"render"}, resource : {"network"}, command : {"remove"},
          kwargs : [network : NetworkNames]]
    \cup {c \in [op : {"render"}, resource : ResourceKinds,
                  command : CommandKinds, kwargs : NamingKwargs] :
             ~(c.command = "create" /\ c.resource \in {"container", "volume", "network"})}

(***************************************************************************)
(* The host.  containers gives the run-state of every container name,      *)
(* volumes is the set of the volumes that exist, images the set of the     *)
(* image references that are stored locally.                               *)
(***************************************************************************)
VARIABLES call, containers, volumes, images, results, pending

\* The default values of the list-valued parameters of container() and
\* volume() (lines 15-18 and 163): one list object each, made when the
\* function is defined and bound to the parameter in every call that gives
\* no value for it.
VARIABLES defaults

vars == <<call, containers, volumes, images, results, pending, defaults>>

ListParams(op) ==
    IF op = "container" THEN {"ports", "networks", "volumes", "env_vars"}
    ELSE IF op = "volume" THEN {"labels"}
    ELSE {}

\* a call of the model that has the empty list for a list-valued parameter
\* is a call that gives no value for it
Omitted(c, p) == c[p] = <<>>

\* the arguments of the call with the defaults bound to the omitted ones
Bind(c) ==
    [f \in DOMAIN c |->
        IF f \in ListParams(c.op) /\ Omitted(c, f) THEN defaults[f] ELSE c[f]]

\* the default objects after a run that ended with the list objects lists
DefaultsAfter(c, lists) ==
    [p \in DOMAIN defaults |->
        IF p \in ListParams(c.op) /\ Omitted(c, p) THEN lists[p] ELSE defaults[p]]

\* host.get_fact(DockerContainer, object_id=container): the inspection
\* records of the container, none when it does not exist
get_fact_DockerContainer(name) ==
    IF containers[name] = "absent" THEN <<>>
    ELSE <<[State |-> [Status |-> containers[name]]]>>

\* host.get_fact(DockerVolume, object_id=volume)
get_fact_DockerVolume(name) ==
    IF name \in volumes THEN <<[Name |-> name]>> ELSE <<>>

\* position of the first ";" of a command line, 0 when there is none
RECURSIVE Separator(_, _)
Separator(words, i) ==
    IF i > Len(words) THEN 0
    ELSE IF words[i] = ";" THEN i
    ELSE Separator(words, i + 1)

\* one docker invocation run on the host h = [containers, volumes, images]
RunDocker(words, h) ==
    IF Len(words) < 4 THEN h
    ELSE IF words[2] = "container" /\ words[3] = "create"
    THEN IF h.containers[words[5]] = "absent"
         THEN [h EXCEPT !.containers[words[5]] = "created"]
         ELSE h
    ELSE IF words[2] = "container" /\ words[3] = "rm"
    THEN [h EXCEPT !.containers[words[5]] = "absent"]
    ELSE IF words[2] = "container" /\ words[3] = "start"
    THEN IF h.containers[words[4]] # "absent"
         THEN [h EXCEPT !.containers[words[4]] = "running"]
         ELSE h
    ELSE IF words[2] = "container" /\ words[3] = "stop"
    THEN IF h.containers[words[4]] = "running"
         THEN [h EXCEPT !.containers[words[4]] = "exited"]
         ELSE h
    ELSE IF words[2] = "volume" /\ words[3] = "create"
    THEN [h EXCEPT !.volumes = @ \cup {words[4]}]
    ELSE IF words[2] = "volume" /\ words[3] = "rm"
    THEN [h EXCEPT !.volumes = @ \ {words[4]}]
    ELSE IF words[2] = "image" /\ words[3] = "pull"
    THEN [h EXCEPT !.images = @ \cup {words[4]}]
    ELSE IF words[2] = "image" /\ words[3] = "rm"
    THEN [h EXCEPT !.images = @ \ {words[4]}]
    ELSE h

\* a command line run by the shell: the invocations around ";" in order
RECURSIVE RunShell(_, _)
RunShell(words, h) ==
    LET i == Separator(words, 1)
    IN  IF i = 0 THEN RunDocker(words, h)
        ELSE RunShell(SubSeq(words, i + 1, Len(words)),
                      RunDocker(SubSeq(words, 1, i - 1), h))

Last == results[Len(results)]

Init ==
    /\ call \in ContainerCalls \cup VolumeCalls \cup ImageCalls \cup RenderCalls
                \cup ConvertCalls \cup ParseCalls
    /\ containers \in [ContainerNames -> Statuses]
    /\ volumes \in SUBSET VolumeNames
    /\ images \in SUBSET ImageRefs
    /\ call.op # "container" => containers = [n \in ContainerNames |-> "absent"]
    /\ call.op # "volume" => volumes = {}
    /\ call.op # "image" => images = {}
    /\ results = <<>>
    /\ pending = <<>>
    /\ defaults = [ports |-> <<>>, networks |-> <<>>, volumes |-> <<>>,
                   env_vars |-> <<>>, labels |-> <<>>]

\* one run of docker.container(...) against the host
ContainerOp ==
    /\ call.op = "container"
    /\ pending = <<>>
    /\ Len(results) < MaxPasses
    /\ LET g == container(Bind(call), get_fact_DockerContainer(call.container))
       IN  /\ results' = Append(results, g)
           /\ pending' = g.out
           /\ defaults' = DefaultsAfter(call, g.lists)
    /\ UNCHANGED <<call, containers, volumes, images>>

\* one run of docker.volume(...) against the host
VolumeOp ==
    /\ call.op = "volume"
    /\ pending = <<>>
    /\ Len(results) < MaxPasses
    /\ LET g == volume(Bind(call), get_fact_DockerVolume(call.volume))
       IN  /\ results' = Append(results, g)
           /\ pending' = g.out
           /\ defaults' = DefaultsAfter(call, g.lists)
    /\ UNCHANGED <<call, containers, volumes, images>>

\* one run of docker.image(...)
ImageOp ==
    /\ call.op = "image"
    /\ pending = <<>>
    /\ Len(results) < MaxPasses
    /\ LET g == image(call)
       IN  /\ results' = Append(results, g)
           /\ pending' = g.out
    /\ UNCHANGED <<call, containers, volumes, images, defaults>>

\* one direct call of handle_docker
RenderOp ==
    /\ call.op = "render"
    /\ Len(results) < MaxPasses
    /\ LET r == handle_docker(call.resource, call.command, call.kwargs)
       IN  results' = Append(results, [NoRun EXCEPT !.err = r.err, !.ret = r])
    /\ UNCHANGED <<call, containers, volumes, images, pending, defaults>>

\* convert_key applied to the key of the call, and after that to the value
\* the call before returned
ConvertOp ==
    /\ call.op = "convert_key"
    /\ Len(results) < MaxPasses
    /\ LET key == IF results = <<>> THEN call.key ELSE Last.ret.words
       IN  results' = Append(results,
                             [NoRun EXCEPT !.ret = Return(convert_key(key))])
    /\ UNCHANGED <<call, containers, volumes, images, pending, defaults>>

\* one call of parse_response
ParseOp ==
    /\ call.op = "parse_response"
    /\ Len(results) < MaxPasses
    /\ LET r == parse_response(call.output)
       IN  results' = Append(results,
                             [NoRun EXCEPT !.err = r.err,
                                           !.ret = [err |-> r.err, value |-> r.value,
                                                    words |-> <<>>],
                                           !.records = r.records])
    /\ UNCHANGED <<call, containers, volumes, images, pending, defaults>>

\* the executor runs the next yielded command on the host
ExecuteNext ==
    /\ pending # <<>>
    /\ LET h == RunShell(Head(pending).words,
                         [containers |-> containers, volumes |-> volumes,
                          images |-> images])
       IN  /\ containers' = h.containers
           /\ volumes' = h.volumes
           /\ images' = h.images
    /\ pending' = Tail(pending)
    /\ UNCHANGED <<call, results, defaults>>

\* the run ended in an exception: the commands it yielded before are dropped
Abort ==
    /\ pending # <<>>
    /\ Last.err # "none"
    /\ pending' = <<>>
    /\ UNCHANGED <<call, containers, volumes, images, results, defaults>>

Next ==
    \/ ContainerOp \/ VolumeOp \/ ImageOp \/ RenderOp \/ ConvertOp \/ ParseOp
    \/ ExecuteNext \/ Abort

Spec == Init /\ [][Next]_vars

(***************************************************************************)
(* Properties.                                                             *)
(***************************************************************************)
Passes == 1..Len(results)

\* the run-state a container pass observed
Observed(r) == r.existent.State.Status

IsAction(item, resource, command) ==
    /\ item.resource = resource
    /\ item.command = command

OnContainer(item, command) ==
    /\ IsAction(item, "container", command)
    /\ item.kwargs.container = call.container

Commands(out) == {out[j].command : j \in 1..Len(out)}

ForcedRecreation(r) ==
    /\ call.op = "container"
    /\ call.force /\ call.present /\ call.image # ""
    /\ Truthy(r.existent)

\* C1: a container pass with force and present set, a non-empty image and a
\* container that existed before the pass yields Remove of that container
\* first and Create of that container second, and no Create that is not
\* preceded by a Remove, whatever start and the run-state are.
C1_ForcedRecreationOrder ==
    \A i \in Passes :
        ForcedRecreation(results[i]) =>
            LET out == results[i].out
            IN  /\ Len(out) >= 2
                /\ OnContainer(out[1], "remove")
                /\ OnContainer(out[2], "create")
                /\ \A j \in 1..Len(out) :
                       out[j].command = "create" =>
                           \E k \in 1..(j - 1) : out[k].command = "remove"

C1_Witness ==
    \E i \in Passes :
        /\ ForcedRecreation(results[i])
        /\ Observed(results[i]) = "running"
        /\ ~call.start
        /\ Len(results[i].out) = 3

\* C2: a container pass with present, force and start set, a non-empty image
\* and a container that existed before the pass ends without error and yields
\* exactly Remove of the container and then Create of it with the chained
\* start, nothing else.
C2_NoDoubleStart ==
    \A i \in Passes :
        (ForcedRecreation(results[i]) /\ call.start) =>
            LET out == results[i].out
            IN  /\ results[i].err = "none"
                /\ Len(out) = 2
                /\ OnContainer(out[1], "remove")
                /\ OnContainer(out[2], "create")
                /\ out[2].kwargs.start

\* C3: a container pass with force unset, present and start set, against a
\* container that existed before the pass, ends without error; it yields
\* exactly Start of the container when the observed run-state is not
\* "running" and yields nothing when it is "running".
C3_StartGuard ==
    \A i \in Passes :
        (/\ call.op = "container"
         /\ ~call.force /\ call.present /\ call.start
         /\ Truthy(results[i].existent)) =>
            LET out == results[i].out
            IN  /\ results[i].err = "none"
                /\ IF Observed(results[i]) # "running"
                   THEN Len(out) = 1 /\ OnContainer(out[1], "start")
                   ELSE out = <<>>

StopCase(r) ==
    /\ call.op = "container"
    /\ ~call.start /\ call.present /\ ~call.force
    /\ Truthy(r.existent)

\* C4: a container pass with start unset, present set and force unset against
\* a container that existed before the pass yields exactly Stop of the
\* container when the observed run-state is "running" and yields nothing when
\* it is not.
C4_StopGuard ==
    \A i \in Passes :
        StopCase(results[i]) =>
            LET out == results[i].out
            IN  IF Observed(results[i]) = "running"
                THEN /\ Len(out) = 1
                     /\ OnContainer(out[1], "stop")
                     /\ out[1].words = <<"docker", "container", "stop", call.container>>
                ELSE out = <<>>

C4_Witness ==
    \E i \in Passes :
        /\ StopCase(results[i])
        /\ Observed(results[i]) = "running"
        /\ Len(results[i].out) = 1
        /\ pending = <<>>
        /\ containers[call.container] = "exited"

\* the run-state the pass observed is the one the call asks for
RunStateMatches(r) ==
    Truthy(r.existent) => (call.start <=> Observed(r) = "running")

\* C5: with force unset, a pass that follows another pass of the same call,
\* whose yielded commands were run on the host in the order yielded, yields
\* no Create and no Remove, and yields no Start and no Stop when the observed
\* run-state is the one the call asks for.
C5_SecondPassIdempotent ==
    \A i \in Passes :
        (call.op = "container" /\ ~call.force /\ i >= 2) =>
            /\ Commands(results[i].out) \cap {"create", "remove"} = {}
            /\ RunStateMatches(results[i]) =>
                   Commands(results[i].out) \cap {"start", "stop"} = {}

C5_Witness ==
    /\ call.op = "container" /\ ~call.force
    /\ Len(results) >= 2
    /\ Commands(results[1].out) = {"create"}
    /\ results[1].err = "none"
    /\ results[2].err = "none"
    /\ results[2].out = <<>>
    /\ Truthy(results[2].existent)

\* C6: a container pass that must create (present set, and the container
\* absent or force set) with an empty image ends in the configuration error
\* and has yielded no command at all before it.
C6_ConfigErrorEmitsNothing ==
    \A i \in Passes :
        (/\ call.op = "container"
         /\ call.present
         /\ (~Truthy(results[i].existent) \/ call.force)
         /\ call.image = "") =>
            /\ results[i].err = "OperationError"
            /\ results[i].out = <<>>

VolumeNoOpCase(r) ==
    /\ call.op = "volume"
    /\ \/ call.present /\ Truthy(r.existent)
       \/ ~call.present /\ r.existent = None

\* C7: a volume pass with present set against a volume that exists, and one
\* with present unset against a volume that does not exist, signals exactly
\* one no-op and yields no command, after exactly one lookup.
C7_VolumeNoOp ==
    \A i \in Passes :
        VolumeNoOpCase(results[i]) =>
            /\ results[i].noops = 1
            /\ results[i].out = <<>>
            /\ results[i].err = "none"
            /\ results[i].lookups = 1

C7_Witness ==
    /\ call.op = "volume"
    /\ Len(results) >= 2
    /\ call.labels # <<>>
    /\ VolumeNoOpCase(results[2])
    /\ results[2].noops = 1

\* C8: a volume pass with present set against an absent volume ends without
\* error and yields exactly one Create, rendered as the volume-create
\* invocation naming the volume, with the driver flag exactly when driver is
\* non-empty and one label flag per label, in input order.
C8_VolumeCreate ==
    \A i \in Passes :
        (/\ call.op = "volume"
         /\ call.present
         /\ ~Truthy(results[i].existent)) =>
            LET out == results[i].out
            IN  /\ results[i].err = "none"
                /\ Len(out) = 1
                /\ IsAction(out[1], "volume", "create")
                /\ out[1].words =
                       <<"docker", "volume", "create", call.volume>>
                       \o (IF call.driver # "" THEN <<"-d", call.driver>> ELSE <<>>)
                       \o Flags("--label", call.labels)

\* C9: a volume pass with present unset against a volume that exists yields
\* exactly one Remove, rendered as an invocation that removes the resource of
\* kind volume with the given name.
C9_VolumeRemove ==
    \A i \in Passes :
        (/\ call.op = "volume"
         /\ ~call.present
         /\ Truthy(results[i].existent)) =>
            LET out == results[i].out
            IN  /\ Len(out) = 1
                /\ IsAction(out[1], "volume", "remove")
                /\ out[1].words[2] = out[1].resource
                /\ out[1].words = <<"docker", "volume", "rm", call.volume>>

\* C10: rendering Create for kind network returns one network-create
\* invocation naming the network, with each scalar flag only when its value
\* is non-empty, each boolean flag only when set, and one flag per entry of
\* opts, ipam-opts and labels in input order; rendering Remove for kind
\* network returns one network-remove invocation.
C10_NetworkRender ==
    \A i \in Passes :
        (/\ call.op = "render"
         /\ call.resource = "network"
         /\ call.command \in {"create", "remove"}) =>
            LET ret == results[i].ret
            IN  /\ ret.err = "none"
                /\ ret.value = "str"
                /\ call.command = "create" =>
                       ret.words = NetworkCreateWords(call.kwargs)
                /\ call.command = "remove" =>
                       ret.words = <<"docker", "network", "rm", call.kwargs.network>>

\* C11: an image pass yields exactly one action, Pull of the reference when
\* present is set and Remove of the reference when it is not; it makes no
\* lookup, so the yielded sequence does not depend on the images the host
\* holds.
C11_ImageToggle ==
    \A i \in Passes :
        call.op = "image" =>
            LET out == results[i].out
            IN  /\ results[i].err = "none"
                /\ results[i].lookups = 0
                /\ Len(out) = 1
                /\ IsAction(out[1], "image", IF call.present THEN "pull" ELSE "remove")
                /\ out[1].kwargs.image = call.image
                /\ out[1].words = <<"docker", "image",
                                    IF call.present THEN "pull" ELSE "rm",
                                    call.image>>

\* a second pass of an image call, run with the image already on the host
C11_Witness ==
    /\ call.op = "image"
    /\ Len(results) >= 2
    /\ pending = <<>>
    /\ call.present
    /\ call.image \in images
    /\ results[1].existent = None
    /\ results[2].out = results[1].out
    /\ Len(results[2].out) = 1

\* the pairs of a resource kind and an action kind that have a renderer
RegisteredPairs ==
    {<<"container", "create">>, <<"container", "remove">>,
     <<"container", "start">>, <<"container", "stop">>,
     <<"image", "pull">>, <<"image", "remove">>,
     <<"volume", "create">>, <<"volume", "remove">>,
     <<"network", "create">>, <<"network", "remove">>}

UnsupportedCall ==
    /\ call.op = "render"
    /\ <<call.resource, call.command>> \notin RegisteredPairs

\* C12: a call of the renderer dispatch with a pair of resource kind and
\* action kind that has no renderer ends in an error and returns no command,
\* neither the rendering of another renderer nor an empty one.
C12_UnsupportedPairFatal ==
    \A i \in Passes :
        UnsupportedCall =>
            /\ results[i].err # "none"
            /\ results[i].ret.err = "KeyError"
            /\ results[i].ret.value = "raised"
            /\ results[i].ret.words = <<>>
            /\ results[i].out = <<>>

C12_Witness ==
    /\ UnsupportedCall
    /\ call.resource = "secret"
    /\ call.command = "create"
    /\ Len(results) >= 1
    /\ results[1].err = "KeyError"

\* the renderings of container Create made so far, each with its parameters
CreateItems ==
    {x \in UNION {{results[i].out[j] : j \in 1..Len(results[i].out)} : i \in Passes} :
        IsAction(x, "container", "create")}

\* the words of a rendering before the command separator
CreatePart(words) ==
    IF \E i \in 1..Len(words) : words[i] = ";"
    THEN SubSeq(words, 1, (CHOOSE i \in 1..Len(words) :
                              /\ words[i] = ";"
                              /\ \A j \in 1..(i - 1) : words[j] # ";") - 1)
    ELSE words

\* the values that follow the given flag in a sequence of flag-value pairs
RECURSIVE ValuesOf(_, _)
ValuesOf(pairs, flag) ==
    IF Len(pairs) < 2 THEN <<>>
    ELSE (IF pairs[1] = flag THEN <<pairs[2]>> ELSE <<>>)
         \o ValuesOf(SubSeq(pairs, 3, Len(pairs)), flag)

\* C13: the rendering of a container Create depends on its parameters only;
\* it starts with the create invocation naming the container and ends with
\* the image, and between them holds one flag per entry of networks, ports,
\* volumes and env_vars, each list in the order supplied, the pull-policy
\* flag exactly when pull_always is set, and nothing else.
C13_CreateRendering ==
    \A x \in CreateItems :
        LET k == x.kwargs
            c == CreatePart(x.words)
            f == SubSeq(c, 6, Len(c) - 1)
        IN  /\ \A y \in CreateItems : y.kwargs = k => y.words = x.words
            /\ Len(c) >= 6
            /\ SubSeq(c, 1, 5) = <<"docker", "container", "create", "--name", k.container>>
            /\ c[Len(c)] = k.image
            /\ Len(f) = 2 * (Len(k.networks) + Len(k.ports) + Len(k.volumes)
                             + Len(k.env_vars) + (IF k.pull_always THEN 1 ELSE 0))
            /\ ValuesOf(f, "--network") = k.networks
            /\ ValuesOf(f, "-p") = k.ports
            /\ ValuesOf(f, "-v") = k.volumes
            /\ ValuesOf(f, "-e") = k.env_vars
            /\ ValuesOf(f, "--pull") = (IF k.pull_always THEN <<"always">> ELSE <<>>)

C13_Witness ==
    \E x \in CreateItems :
        /\ x.kwargs.ports = <<"443:443", "80:80">>
        /\ x.kwargs.pull_always
        /\ Len(results) >= 2
        /\ \E j \in 1..Len(results[2].out) : results[2].out[j] = x

\* C14: the rendering of a container Create holds a Start invocation of the
\* same container exactly when start is set; the invocation comes after the
\* image argument of the create invocation, behind one command separator.
C14_ChainedStart ==
    \A x \in CreateItems :
        LET k == x.kwargs
            w == x.words
            c == CreatePart(w)
        IN  /\ c[Len(c)] = k.image
            /\ IF k.start
               THEN /\ Len(w) = Len(c) + 5
                    /\ SubSeq(w, Len(c) + 1, Len(w)) =
                           <<";", "docker", "container", "start", k.container>>
               ELSE /\ w = c
                    /\ \A i \in 1..Len(w) : w[i] \notin {";", "start"}

C14_Witness ==
    \E x \in CreateItems :
        /\ x.kwargs.start
        /\ x.kwargs.env_vars # <<>>
        /\ Len(x.words) = Len(CreatePart(x.words)) + 5

\* the keys that are lower-cased as a whole
AllowListed == {<<"I", "D">>, <<"I", "P", "v", "4">>, <<"I", "P", "v", "6">>}

UpperCaseLetters == {"I", "D", "P", "R", "T"}

LowerCaseLetter(c) ==
    IF c \in UpperCaseLetters
    THEN [I |-> "i", D |-> "d", P |-> "p", R |-> "r", T |-> "t"][c]
    ELSE c

\* the normalized form of a key, character by character
Normalized(key) ==
    IF key \in AllowListed
    THEN [i \in 1..Len(key) |-> LowerCaseLetter(key[i])]
    ELSE Join([i \in 1..Len(key) |->
                 IF i > 1 /\ key[i] \in UpperCaseLetters
                 THEN <<"_", LowerCaseLetter(key[i])>>
                 ELSE <<LowerCaseLetter(key[i])>>])

\* C15: convert_key returns an allow-listed key (ID, IPv4, IPv6) lower-cased
\* with no separator, and any other key with an underscore before every
\* upper-case letter that is not its first character, then lower-cased;
\* convert_key applied to a value it returned returns that value.
C15_ConvertKey ==
    \A i \in Passes :
        call.op = "convert_key" =>
            /\ results[i].ret.value = "str"
            /\ i = 1 => results[i].ret.words = Normalized(call.key)
            /\ i > 1 => results[i].ret.words = results[i - 1].ret.words

C15_Witness ==
    /\ call.op = "convert_key"
    /\ call.key = <<"R", "e", "p", "o", "T", "a", "g", "s">>
    /\ Len(results) >= 2
    /\ results[1].ret.words = <<"r", "e", "p", "o", "_", "t", "a", "g", "s">>
    /\ results[2].ret.words = <<"r", "e", "p", "o", "_", "t", "a", "g", "s">>

\* the lines that parse as a record, and the normalized record of each
RecordLines == {Line_IdTags, Line_Image, Line_EmptyObject}

NormalizedRecord(line) ==
    CASE line = Line_IdTags ->
           (<<"i", "d">> :> <<"1">>)
           @@ (<<"r", "e", "p", "o", "_", "t", "a", "g", "s">> :> <<"2">>)
      [] line = Line_Image -> (<<"i", "m", "a", "g", "e">> :> <<"3">>)
      [] line = Line_EmptyObject -> <<>>

\* C16: when every line of the output parses as a record, parse_response
\* returns the normalized records of the lines, one per line, in the order
\* of the lines, duplicates kept; when a line does not, the call ends in an
\* error and returns no list, neither a partial nor an empty one.
C16_ParseAllOrNothing ==
    \A i \in Passes :
        call.op = "parse_response" =>
            IF \A j \in 1..Len(call.output) : call.output[j] \in RecordLines
            THEN /\ results[i].err = "none"
                 /\ results[i].ret.value = "list"
                 /\ Len(results[i].records) = Len(call.output)
                 /\ \A j \in 1..Len(call.output) :
                        results[i].records[j] = NormalizedRecord(call.output[j])
            ELSE /\ results[i].err # "none"
                 /\ results[i].ret.value # "list"
                 /\ results[i].records = <<>>

RemovalCase(r) ==
    /\ call.op = "container"
    /\ ~call.present
    /\ Truthy(r.existent)

\* C17: a container pass with present unset against a container that existed
\* before the pass yields Remove of that container exactly once and yields
\* no Create, whatever force, start and the run-state are.
C17_NoRedundantRemoval ==
    \A i \in Passes :
        RemovalCase(results[i]) =>
            LET out == results[i].out
            IN  /\ Cardinality({j \in 1..Len(out) : OnContainer(out[j], "remove")}) = 1
                /\ "create" \notin Commands(out)

AbsentCase(r) ==
    /\ call.op = "container"
    /\ ~Truthy(r.existent)

\* C18: a container pass against a name no container had before the pass
\* yields exactly Create of that container when present is set and the image
\* is not empty, and yields nothing when present is unset, whatever force
\* and start are.
C18_AbsentContainer ==
    \A i \in Passes :
        AbsentCase(results[i]) =>
            LET out == results[i].out
            IN  /\ (call.present /\ call.image # "") =>
                       /\ results[i].err = "none"
                       /\ Len(out) = 1
                       /\ OnContainer(out[1], "create")
                /\ ~call.present =>
                       /\ results[i].err = "none"
                       /\ out = <<>>
                /\ Commands(out) \cap {"remove", "start", "stop"} = {}

C18_Witness ==
    \E i \in Passes :
        /\ AbsentCase(results[i])
        /\ call.force /\ call.start /\ call.present
        /\ Len(results[i].out) = 1

\* C19: no container or volume pass, and no renderer it calls, changes a
\* list it received for ports, networks, volumes, env_vars or labels; so the
\* default lists stay empty, and every pass of a call that omits one of
\* these parameters sees it as the empty list.
C19_DefaultListsStayEmpty ==
    /\ \A p \in DOMAIN defaults : defaults[p] = <<>>
    /\ \A i \in Passes :
           \A p \in ListParams(call.op) : results[i].lists[p] = call[p]

C19_Witness ==
    /\ call.op = "container"
    /\ Len(results) >= 2
    /\ call.ports # <<>>
    /\ call.networks = <<>>
    /\ "create" \in Commands(results[1].out)
    /\ "create" \in Commands(results[2].out)
    /\ results[2].lists.networks = <<>>

=============================================================================
